---- MODULE Spec2Model ----
(***************************************************************************)
(* gs_fastcopy: the read() and write() context managers of                 *)
(* src/gs_fastcopy/__init__.py as a state machine.                         *)
(*                                                                         *)
(* Strings (locators, file names) are sequences of characters, so that     *)
(* startswith("gs://"), endswith(".gz") and name[:-3] are computed as the  *)
(* code computes them.  File contents are sequences of small integers.     *)
(* The file system maps absolute paths to files, symbolic links and        *)
(* directories; the object store maps locators to object contents.         *)
(* A caller thread runs a short script of calls (a read, a write, or a     *)
(* read and a write of the bytes read); each call advances one statement   *)
(* of the source at a time.  Under Spec one thread has a script; under     *)
(* SpecConc two threads make one call each; LiveSpec adds weak fairness    *)
(* of the caller's steps to single calls.                                  *)
(***************************************************************************)
EXTENDS Integers, Sequences, FiniteSets, TLC

\* ------------------------------------------------------------- bounds
\* Longest payload (uncompressed content) of a source or of a caller's write.
MaxLen == 2

\* ------------------------------------------------------------ strings
GS == <<"g", "s", ":", "/", "/">>
GZ == <<".", "g", "z">>
Slash == <<"/">>

StartsWith(s, p) == Len(s) >= Len(p) /\ SubSeq(s, 1, Len(p)) = p
EndsWith(s, p) == Len(s) >= Len(p) /\ SubSeq(s, Len(s) - Len(p) + 1, Len(s)) = p
\* s[:-3]
StripGz(s) == SubSeq(s, 1, Len(s) - 3)

\* os.path.join(d, n), os.path.abspath(p) against the working directory
Cwd == <<"/", "w">>
Join(d, n) == d \o Slash \o n
IsAbs(p) == Len(p) > 0 /\ p[1] = "/"
Abspath(p) == IF IsAbs(p) THEN p ELSE Join(Cwd, p)
\* the directory part of a path: everything before its last "/"
LastSlash(p) == CHOOSE i \in 1..Len(p) : p[i] = "/" /\ \A j \in (i + 1)..Len(p) : p[j] # "/"
Dirname(p) == SubSeq(p, 1, LastSlash(p) - 1)
Under(p, d) == StartsWith(p, d \o Slash)

NoPath == <<>>

\* The names the code gives its staged file.
DOWNLOAD == <<"d", "o", "w", "n", "l", "o", "a", "d">>
FILE_TO_UPLOAD == <<"f", "i", "l", "e", "_", "t", "o", "_", "u", "p", "l", "o", "a", "d">>
\* The directories tempfile.TemporaryDirectory() may create.
TmpDirs == {<<"/", "t", "/", "1">>, <<"/", "t", "/", "2">>}

\* ----------------------------------------------------------- locators
RemoteF == GS \o <<"b", "/", "f">>
RemoteFgz == RemoteF \o GZ
\* a remote locator with a bucket and no object name
RemoteBad == GS \o <<"b">>
RelF == <<"f">>
RelFgz == RelF \o GZ
AbsF == Join(Cwd, RelF)
AbsFgz == Join(Cwd, RelFgz)
Locators == {RemoteF, RemoteFgz, RemoteBad, RelF, RelFgz, AbsF, AbsFgz}

IsRemote_Always(uri) == TRUE
\* gs_uri.startswith("gs://")
IsRemote(uri) == StartsWith(uri, GS)
\* storage.Blob.from_string accepts gs://<bucket>/<object> only
WellFormed(uri) ==
    /\ StartsWith(uri, GS)
    /\ \E i \in (Len(GS) + 2)..(Len(uri) - 1) :
          /\ uri[i] = "/"
          /\ \A j \in (Len(GS) + 1)..(i - 1) : uri[j] # "/"

\* ------------------------------------------------------------ content
Bytes == {0, 1}
Contents(n) == UNION {[1..k -> Bytes] : k \in 0..n}

\* The gzip format, reduced: a magic byte, the body delta-coded, the length of
\* the uncompressed data as trailer.
Delta(c) == [i \in 1..Len(c) |-> IF i = 1 THEN c[1] ELSE (c[i] + c[i - 1]) % 2]
RECURSIVE Undelta(_)
Undelta(b) ==
    IF b = <<>> THEN <<>>
    ELSE LET r == Undelta(SubSeq(b, 1, Len(b) - 1))
         IN  Append(r, IF r = <<>> THEN b[1] ELSE (b[Len(b)] + r[Len(r)]) % 2)
Gzip(c) == <<31>> \o Delta(c) \o <<Len(c)>>
GzValid(b) ==
    /\ Len(b) >= 2
    /\ b[1] = 31
    /\ b[Len(b)] = Len(b) - 2
    /\ \A i \in 2..(Len(b) - 1) : b[i] \in Bytes
Gunzip(b) == Undelta(SubSeq(b, 2, Len(b) - 1))

\* -------------------------------------------------------- file system
File(d) == [kind |-> "file", data |-> d, target |-> NoPath]
Link(p) == [kind |-> "link", data |-> <<>>, target |-> p]
Dir == [kind |-> "dir", data |-> <<>>, target |-> NoPath]

Put(f, p, e) == [q \in DOMAIN f \cup {p} |-> IF q = p THEN e ELSE f[q]]
Del(f, S) == [q \in DOMAIN f \ S |-> f[q]]
Exists(f, p) == p \in DOMAIN f
\* tempfile.mkdtemp: a directory that is not there yet.  Nothing a call does
\* depends on which name it is given, only on its being new.
Mkdtemp_Fixed(f) == CHOOSE d \in TmpDirs : TRUE
Mkdtemp(f) == CHOOSE d \in TmpDirs : ~Exists(f, d)
\* TemporaryDirectory(): the name is taken and the directory is made
MakeScratch_NameOnly(f, d) == f
MakeScratch(f, d) == Put(f, d, Dir)
\* The file a path names, following one symbolic link (a relative target is
\* resolved against the link's directory); NoPath when there is none.
Resolve(f, p) ==
    IF ~Exists(f, p) THEN NoPath
    ELSE IF f[p].kind = "link"
         THEN LET q == IF IsAbs(f[p].target) THEN f[p].target
                       ELSE Join(Dirname(p), f[p].target)
              IN  IF Exists(f, q) /\ f[q].kind = "file" THEN q ELSE NoPath
         ELSE IF f[p].kind = "file" THEN p ELSE NoPath
Readable(f, p) == Resolve(f, p) # NoPath
ReadFile(f, p) == f[Resolve(f, p)].data
\* shutil.rmtree: the directory and everything under it; a link is removed,
\* never followed.
Rmtree_DirOnly(f, d) == Del(f, {d})
Rmtree(f, d) == Del(f, {q \in DOMAIN f : q = d \/ Under(q, d)})

\* ------------------------------------------------------ optional values
None == [some |-> FALSE, val |-> 0]
Some(v) == [some |-> TRUE, val |-> v]
NoneS == [some |-> FALSE, val |-> ""]
SomeS(s) == [some |-> TRUE, val |-> s]
NoneB == [some |-> FALSE, val |-> <<>>]
SomeB(b) == [some |-> TRUE, val |-> b]
\* Python truthiness of an optional string: None and "" are both false
Truthy(b) == b.some /\ b.val # ""

\* --------------------------------------------------- external processes
\* An argument of a command line: a fixed word, or a string value.
Word(s) == [w |-> s, p |-> <<>>]
Str(p) == [w |-> "", p |-> p]
Range(s) == {s[i] : i \in 1..Len(s)}
\* What a failing process may write to its standard error.
Diags == {"e1", "e2"}
Done(f) == [rc |-> 0, stderr |-> "", fs |-> f]
\* A process may fail for a reason of its own, leaving nothing or a partial
\* output file behind.
Failures(f, out) ==
    {[rc |-> 1, stderr |-> d, fs |-> g] : d \in Diags, g \in {f, Put(f, out, File(<<>>))}}

\* gcloud storage cp [--billing-project P] SRC DST
GcloudRun(f, rem, cmd) ==
    LET src == cmd[Len(cmd) - 1].p
        dst == cmd[Len(cmd)].p
    IN  (IF WellFormed(src) /\ src \in DOMAIN rem
         THEN {Done(Put(f, dst, File(rem[src])))} ELSE {})
        \cup Failures(f, dst)

\* gunzip/unpigz [--keep --force] PATH: PATH.gz -> PATH, in place.  Without
\* --force a symbolic link is refused; without --keep the input is unlinked.
GunzipRun(f, cmd) ==
    LET path == cmd[Len(cmd)].p
        keep == Word("--keep") \in Range(cmd)
        force == Word("--force") \in Range(cmd)
        out == StripGz(path)
    IN  (IF /\ EndsWith(path, GZ)
            /\ Readable(f, path)
            /\ (f[path].kind = "link" => force)
            /\ GzValid(ReadFile(f, path))
         THEN {Done(Put(IF keep THEN f ELSE Del(f, {path}), out,
                        File(Gunzip(ReadFile(f, path)))))}
         ELSE {})
        \cup Failures(f, out)

\* gzip/pigz PATH: PATH -> PATH.gz, in place; the input is unlinked.
GzipRun(f, cmd) ==
    LET path == cmd[Len(cmd)].p
        out == path \o GZ
    IN  (IF Readable(f, path) /\ f[path].kind = "file"
         THEN {Done(Put(Del(f, {path}), out, File(Gzip(ReadFile(f, path)))))}
         ELSE {})
        \cup Failures(f, out)

\* subprocess.run(cmd, stdout=DEVNULL, stderr=PIPE): every outcome the command
\* may have on file system f and object store rem.
SubprocessRun(f, rem, cmd) ==
    IF cmd[1] = Word("gcloud") THEN GcloudRun(f, rem, cmd)
    ELSE IF cmd[1] \in {Word("unpigz"), Word("gunzip")} THEN GunzipRun(f, cmd)
    ELSE GzipRun(f, cmd)

\* ---------------------------------------------------------- the source
StagedName(uri) == IF EndsWith(uri, GZ) THEN DOWNLOAD \o GZ ELSE DOWNLOAD

\* _download_gs_uri: the command line
GcloudCmd_FlagLast(uri, dest, billing) ==
    <<Word("gcloud"), Word("storage"), Word("cp"), Str(uri), Str(dest)>>
      \o (IF Truthy(billing) THEN <<Word("--billing-project"), Word(billing.val)>> ELSE <<>>)
GcloudCmd(uri, dest, billing) ==
    <<Word("gcloud"), Word("storage"), Word("cp")>>
      \o (IF Truthy(billing) THEN <<Word("--billing-project"), Word(billing.val)>> ELSE <<>>)
      \o <<Str(uri), Str(dest)>>

\* result.returncode != 0
DownloadFailed_Ignored(rc) == FALSE
DownloadFailed(rc) == rc # 0
ExtractFailed_Ignored(rc) == FALSE
ExtractFailed(rc) == rc # 0
CompressFailed_Ignored(rc) == FALSE
CompressFailed(rc) == rc # 0

NoErr == [kind |-> "none", loc |-> <<>>, diag |-> ""]
Err(k, l, d) == [kind |-> k, loc |-> l, diag |-> d]
\* Exception(f"Failed to download file from {gs_uri}: stderr: {result.stderr}")
DownloadError(uri, stderr) == Err("download", uri, stderr)
\* Exception(f"Failed to extract file downloaded from {gs_uri}: stderr: ...")
ExtractError(uri, stderr) == Err("extract", uri, stderr)
\* Exception(f"Failed to compress file for upload to {gs_uri}: stderr: ...")
CompressError(uri, stderr) == Err("compress", uri, stderr)

\* os.symlink(os.path.abspath(gs_uri), buffer_file_name)
StageLocal_Move(f, uri, name) ==
    IF Exists(f, Abspath(uri)) THEN Put(Del(f, {Abspath(uri)}), name, f[Abspath(uri)]) ELSE f
StageLocal(f, uri, name) == Put(f, name, Link(Abspath(uri)))

\* tool = "unpigz" if shutil.which("unpigz") else "gunzip"
DecompressTool_Serial(found) == "gunzip"
DecompressTool(found) == IF found THEN "unpigz" ELSE "gunzip"
\* tool = "pigz" if shutil.which("pigz") else "gzip"
CompressTool(found) == IF found THEN "pigz" ELSE "gzip"
DecompressCmd(tool, keep_archive, name) ==
    IF keep_archive THEN <<Word(tool), Word("--keep"), Word("--force"), Str(name)>>
    ELSE <<Word(tool), Str(name)>>
CompressCmd(tool, name) == <<Word(tool), Str(name)>>

\* buffer_file_name.endswith(".gz") in read; buffer_file_name[:-3] after it
NeedsDecompress_Never(name) == FALSE
NeedsDecompress(name) == EndsWith(name, GZ)
AfterDecompress_Same(name) == name
AfterDecompress(name) == StripGz(name)
\* gs_uri.endswith(".gz") in write; buffer_file_name += ".gz" after it
WantsCompress_Never(uri) == FALSE
WantsCompress(uri) == EndsWith(uri, GZ)
AfterCompress_Same(name) == name
AfterCompress(name) == name \o GZ

\* _get_available_cpus: len(os.sched_getaffinity(0)), os.cpu_count() when the
\* platform has no sched_getaffinity.
GetAvailableCpus(host) == IF host.affinity.some THEN host.affinity ELSE host.cpus
\* if max_workers is None: max_workers = _get_available_cpus()
ResolveWorkers_Falsy(max_workers, host) ==
    IF ~max_workers.some \/ max_workers.val = 0 THEN GetAvailableCpus(host) ELSE max_workers
ResolveWorkers(max_workers, host) ==
    IF ~max_workers.some THEN GetAvailableCpus(host) ELSE max_workers

\* _write_gs_uri: args = {"max_workers": max_workers}; chunk_size when given
UploadArgs(max_workers, chunk_size) ==
    IF chunk_size.some
    THEN [k \in {"max_workers", "chunk_size"} |->
            IF k = "max_workers" THEN max_workers ELSE chunk_size]
    ELSE [k \in {"max_workers"} |-> max_workers]

\* Where control goes when a statement inside the with-block of the scratch
\* directory raises: to the block's exit, which removes the directory.
OnRaise_NoCleanup == "ended"
OnRaise == "cleanup"

\* --------------------------------------------------------------- state
Threads == {1, 2}

VARIABLES
    fs,       \* the file system: absolute path -> File, Link or Dir
    remote,   \* the object store: locator -> content
    prog,     \* per thread: the calls its script has still to make
    call,     \* per thread: the arguments of the call in progress
    pc,       \* per thread: the statement the call has reached
    tmp,      \* per thread: the scratch directory of the call
    buf,      \* per thread: buffer_file_name
    keep,     \* per thread: keep_archive
    workers,  \* per thread: max_workers after line 136
    hnd,      \* per thread: the stream handed to the caller
    exc,      \* per thread: the exception in flight inside the call
    result,   \* per thread: the exception the call ended with
    cbuf,     \* per thread: the bytes the caller read from the last stream
    log,      \* per thread: what the call has done so far, in order
    cmds,     \* per thread: the subprocess.run calls: command line and result
    ups,      \* per thread: the calls of upload_chunks_concurrently
    orig,     \* per thread: the source as it was when the call began
    prev,     \* per thread: the call before this one
    host      \* per thread: the platform as _get_available_cpus found it

vars == <<fs, remote, prog, call, pc, tmp, buf, keep, workers, hnd, exc, result,
          cbuf, log, cmds, ups, orig, prev, host>>

NoCall == [op |-> "none", uri |-> <<>>, billing_project |-> NoneS,
           max_workers |-> None, chunk_size |-> None, copy |-> FALSE]
ReadCall(uri, bp) == [NoCall EXCEPT !.op = "read", !.uri = uri, !.billing_project = bp]
WriteCall(uri, mw, cs, bp, copy) ==
    [op |-> "write", uri |-> uri, billing_project |-> bp, max_workers |-> mw,
     chunk_size |-> cs, copy |-> copy]
NoHandle == [state |-> "none", mode |-> "", data |-> <<>>]
NoSource == [there |-> FALSE, data |-> <<>>]
NoPrev == [op |-> "none", uri |-> <<>>, orig |-> NoSource]

\* The bytes a locator names: an object of the store, or a local file.
Source(f, rem, uri) ==
    IF StartsWith(uri, GS)
    THEN IF uri \in DOMAIN rem THEN [there |-> TRUE, data |-> rem[uri]] ELSE NoSource
    ELSE IF Readable(f, Abspath(uri))
         THEN [there |-> TRUE, data |-> ReadFile(f, Abspath(uri))] ELSE NoSource

Set(v, t, x) == [v EXCEPT ![t] = x]
Logged(t, e) == Set(log, t, Append(log[t], e))
\* subprocess.run returned: the command and its CompletedProcess
Ran(t, cmd, o) == Set(cmds, t, Append(cmds[t], [cmd |-> cmd, rc |-> o.rc, stderr |-> o.stderr]))
Rc(ok, failed, o) == IF o.rc = 0 THEN ok ELSE failed
\* the hosts a call may run on: with and without sched_getaffinity
Hosts == {[affinity |-> a, cpus |-> Some(2)] : a \in {None, Some(1)}}

\* ---------------------------------------------------------------- read
\* lines 54-59: the scratch directory and the staged file's name
ReadEnter(t) ==
    /\ pc[t] = "idle" /\ prog[t] # <<>> /\ Head(prog[t]).op = "read"
    /\ LET d == Mkdtemp(fs)
       IN  /\ fs' = MakeScratch(fs, d)
           /\ tmp' = Set(tmp, t, d)
           /\ buf' = Set(buf, t, Join(d, StagedName(Head(prog[t]).uri)))
    /\ call' = Set(call, t, Head(prog[t]))
    /\ prog' = Set(prog, t, Tail(prog[t]))
    /\ keep' = Set(keep, t, FALSE)
    /\ orig' = Set(orig, t, Source(fs, remote, Head(prog[t]).uri))
    /\ log' = Logged(t, "mkdtemp")
    /\ pc' = Set(pc, t, "stage")
    /\ UNCHANGED <<remote, workers, hnd, exc, result, cbuf, cmds, ups, prev, host>>

\* lines 61-62 and _download_gs_uri
ReadDownload(t) ==
    /\ pc[t] = "stage" /\ call[t].op = "read" /\ IsRemote(call[t].uri)
    /\ LET cmd == GcloudCmd(call[t].uri, buf[t], call[t].billing_project)
       IN  \E o \in SubprocessRun(fs, remote, cmd) :
                 /\ cmds' = Ran(t, cmd, o)
                 /\ log' = Logged(t, Rc("gcloud_rc0", "gcloud_rc1", o))
                 /\ fs' = o.fs
                 /\ IF DownloadFailed(o.rc)
                    THEN /\ exc' = Set(exc, t, DownloadError(call[t].uri, o.stderr))
                         /\ pc' = Set(pc, t, OnRaise)
                    ELSE /\ pc' = Set(pc, t, "decomp")
                         /\ UNCHANGED exc
    /\ UNCHANGED <<remote, prog, call, tmp, buf, keep, workers, hnd, result, cbuf,
                   ups, orig, prev, host>>

\* lines 63-69
ReadSymlink(t) ==
    /\ pc[t] = "stage" /\ call[t].op = "read" /\ ~IsRemote(call[t].uri)
    /\ keep' = Set(keep, t, TRUE)
    /\ fs' = StageLocal(fs, call[t].uri, buf[t])
    /\ log' = Logged(t, "symlink")
    /\ pc' = Set(pc, t, "decomp")
    /\ UNCHANGED <<remote, prog, call, tmp, buf, workers, hnd, exc, result, cbuf,
                   cmds, ups, orig, prev, host>>

\* lines 72-97
ReadDecompress(t) ==
    /\ pc[t] = "decomp" /\ NeedsDecompress(buf[t])
    /\ \E found \in BOOLEAN :
          LET cmd == DecompressCmd(DecompressTool(found), keep[t], buf[t])
          IN  \E o \in SubprocessRun(fs, remote, cmd) :
                    /\ cmds' = Ran(t, cmd, o)
                    /\ log' = Set(log, t, log[t] \o
                                 <<IF found THEN "unpigz_on_path" ELSE "unpigz_not_on_path",
                                   Rc("decompress_rc0", "decompress_rc1", o)>>)
                    /\ fs' = o.fs
                    /\ IF ExtractFailed(o.rc)
                       THEN /\ exc' = Set(exc, t, ExtractError(call[t].uri, o.stderr))
                            /\ pc' = Set(pc, t, OnRaise)
                            /\ UNCHANGED buf
                       ELSE /\ buf' = Set(buf, t, AfterDecompress(buf[t]))
                            /\ pc' = Set(pc, t, "open")
                            /\ UNCHANGED exc
    /\ UNCHANGED <<remote, prog, call, tmp, keep, workers, hnd, result, cbuf, ups,
                   orig, prev, host>>

\* line 72, when the staged name carries no ".gz"
ReadPlain(t) ==
    /\ pc[t] = "decomp" /\ ~NeedsDecompress(buf[t])
    /\ pc' = Set(pc, t, "open")
    /\ UNCHANGED <<fs, remote, prog, call, tmp, buf, keep, workers, hnd, exc, result,
                   cbuf, log, cmds, ups, orig, prev, host>>

\* lines 99-100: open(buffer_file_name, "rb") and the yield
ReadOpen(t) ==
    /\ pc[t] = "open"
    /\ IF Readable(fs, buf[t])
       THEN /\ hnd' = Set(hnd, t, [state |-> "open", mode |-> "rb",
                                   data |-> ReadFile(fs, buf[t])])
            /\ log' = Logged(t, "yield")
            /\ pc' = Set(pc, t, "body")
            /\ UNCHANGED exc
       ELSE /\ exc' = Set(exc, t, Err("open", buf[t], ""))
            /\ log' = Logged(t, "open_failed")
            /\ pc' = Set(pc, t, OnRaise)
            /\ UNCHANGED hnd
    /\ UNCHANGED <<fs, remote, prog, call, tmp, buf, keep, workers, result, cbuf,
                   cmds, ups, orig, prev, host>>

\* the caller's body: f.read()
CallerRead(t) ==
    /\ pc[t] = "body" /\ hnd[t].mode = "rb" /\ ~cbuf[t].some
    /\ cbuf' = Set(cbuf, t, SomeB(hnd[t].data))
    /\ UNCHANGED <<fs, remote, prog, call, pc, tmp, buf, keep, workers, hnd, exc,
                   result, log, cmds, ups, orig, prev, host>>

\* --------------------------------------------------------------- write
NoHost == [affinity |-> None, cpus |-> None]

\* lines 135-136: the worker count is resolved before any resource is opened
WriteEnter(t) ==
    /\ pc[t] = "idle" /\ prog[t] # <<>> /\ Head(prog[t]).op = "write"
    /\ \E h \in (IF Head(prog[t]).max_workers.some THEN {NoHost} ELSE Hosts) :
          /\ host' = Set(host, t, h)
          /\ workers' = Set(workers, t, ResolveWorkers(Head(prog[t]).max_workers, h))
    /\ call' = Set(call, t, Head(prog[t]))
    /\ prog' = Set(prog, t, Tail(prog[t]))
    /\ orig' = Set(orig, t, Source(fs, remote, Head(prog[t]).uri))
    /\ pc' = Set(pc, t, "enter")
    /\ UNCHANGED <<fs, remote, tmp, buf, keep, hnd, exc, result, cbuf, log, cmds,
                   ups, prev>>

\* lines 140-146: the scratch directory, open(buffer_file_name, "wb"), the yield
WriteOpen(t) ==
    /\ pc[t] = "enter"
    /\ LET d == Mkdtemp(fs)
       IN  /\ fs' = Put(MakeScratch(fs, d), Join(d, FILE_TO_UPLOAD), File(<<>>))
           /\ tmp' = Set(tmp, t, d)
           /\ buf' = Set(buf, t, Join(d, FILE_TO_UPLOAD))
    /\ hnd' = Set(hnd, t, [state |-> "open", mode |-> "wb", data |-> <<>>])
    /\ log' = Set(log, t, log[t] \o <<"mkdtemp", "yield">>)
    /\ pc' = Set(pc, t, "body")
    /\ UNCHANGED <<remote, prog, call, keep, workers, exc, result, cbuf, cmds, ups,
                   orig, prev, host>>

\* the caller's body: f.write(b); a copying caller writes the bytes it read
NextBytes(t) ==
    IF call[t].copy
    THEN IF Len(hnd[t].data) < Len(cbuf[t].val)
         THEN {cbuf[t].val[Len(hnd[t].data) + 1]} ELSE {}
    ELSE IF Len(hnd[t].data) < MaxLen THEN Bytes ELSE {}

CallerWrite(t) ==
    /\ pc[t] = "body" /\ hnd[t].mode = "wb"
    /\ \E b \in NextBytes(t) :
          hnd' = Set(hnd, t, [hnd[t] EXCEPT !.data = Append(@, b)])
    /\ UNCHANGED <<fs, remote, prog, call, pc, tmp, buf, keep, workers, exc, result,
                   cbuf, log, cmds, ups, orig, prev, host>>

\* The caller's body ends: normally, or by raising (the error is thrown into the
\* generator at its yield).
BodyDone(t) ==
    IF hnd[t].mode = "rb" THEN prog[t] # <<>> => cbuf[t].some
    ELSE call[t].copy => hnd[t].data = cbuf[t].val

BodyExit(t) ==
    /\ pc[t] = "body"
    /\ \E raises \in BOOLEAN :
          /\ ~raises => BodyDone(t)
          /\ exc' = Set(exc, t, IF raises THEN Err("caller", <<>>, "") ELSE NoErr)
    /\ log' = Logged(t, "body_exit")
    /\ pc' = Set(pc, t, "exit")
    /\ UNCHANGED <<fs, remote, prog, call, tmp, buf, keep, workers, hnd, result,
                   cbuf, cmds, ups, orig, prev, host>>

\* The exit of `with open(...) as f`: the handle is closed; a write handle's
\* buffered bytes reach the file.  Lines 99 and 145.
AfterClose_Proceeds(t) == IF call[t].op = "read" THEN "cleanup" ELSE "compress"
AfterClose(t) ==
    IF call[t].op = "read" THEN "cleanup"
    ELSE IF exc[t] # NoErr THEN OnRaise ELSE "compress"

CloseStream(t) ==
    /\ pc[t] = "exit"
    /\ hnd' = Set(hnd, t, [hnd[t] EXCEPT !.state = "closed"])
    /\ fs' = IF hnd[t].mode = "wb" THEN Put(fs, buf[t], File(hnd[t].data)) ELSE fs
    /\ log' = Logged(t, "close")
    /\ pc' = Set(pc, t, AfterClose(t))
    /\ UNCHANGED <<remote, prog, call, tmp, buf, keep, workers, exc, result, cbuf,
                   cmds, ups, orig, prev, host>>

\* lines 149-168
WriteCompress(t) ==
    /\ pc[t] = "compress" /\ WantsCompress(call[t].uri)
    /\ \E found \in BOOLEAN :
          LET cmd == CompressCmd(CompressTool(found), buf[t])
          IN  \E o \in SubprocessRun(fs, remote, cmd) :
                    /\ cmds' = Ran(t, cmd, o)
                    /\ log' = Set(log, t, log[t] \o
                                 <<IF found THEN "pigz_on_path" ELSE "pigz_not_on_path",
                                   Rc("compress_rc0", "compress_rc1", o)>>)
                    /\ fs' = o.fs
                    /\ IF CompressFailed(o.rc)
                       THEN /\ exc' = Set(exc, t, CompressError(call[t].uri, o.stderr))
                            /\ pc' = Set(pc, t, OnRaise)
                            /\ UNCHANGED buf
                       ELSE /\ buf' = Set(buf, t, AfterCompress(buf[t]))
                            /\ pc' = Set(pc, t, "transfer")
                            /\ UNCHANGED exc
    /\ UNCHANGED <<remote, prog, call, tmp, keep, workers, hnd, result, cbuf, ups,
                   orig, prev, host>>

\* line 149, when the destination name carries no ".gz"
WritePlain(t) ==
    /\ pc[t] = "compress" /\ ~WantsCompress(call[t].uri)
    /\ pc' = Set(pc, t, "transfer")
    /\ UNCHANGED <<fs, remote, prog, call, tmp, buf, keep, workers, hnd, exc, result,
                   cbuf, log, cmds, ups, orig, prev, host>>

\* _write_gs_uri, lines 209-224.  The upload as the code calls it:
UploadCall(t) ==
    [file |-> buf[t],
     blob |-> call[t].uri,
     user_project |-> IF Truthy(call[t].billing_project)
                      THEN call[t].billing_project ELSE NoneS,
     kwargs |-> UploadArgs(workers[t], call[t].chunk_size),
     data |-> IF Readable(fs, buf[t]) THEN SomeB(ReadFile(fs, buf[t])) ELSE NoneB]

\* lines 170-173: storage.Client() may raise; Blob.from_string raises ValueError
\* on a malformed locator; upload_chunks_concurrently uploads the file or raises.
WriteUpload(t) ==
    /\ pc[t] = "transfer" /\ IsRemote(call[t].uri)
    /\ \/ /\ log' = Logged(t, "client")
          /\ \E d \in Diags : exc' = Set(exc, t, Err("sdk", <<>>, d))
          /\ pc' = Set(pc, t, OnRaise)
          /\ UNCHANGED <<remote, ups>>
       \/ /\ ~WellFormed(call[t].uri)
          /\ log' = Set(log, t, log[t] \o <<"client", "from_string">>)
          /\ exc' = Set(exc, t, Err("uri", <<>>, ""))
          /\ pc' = Set(pc, t, OnRaise)
          /\ UNCHANGED <<remote, ups>>
       \/ /\ WellFormed(call[t].uri)
          /\ log' = Set(log, t, log[t] \o <<"client", "from_string", "bucket", "upload">>)
          /\ ups' = Set(ups, t, Append(ups[t], UploadCall(t)))
          /\ \/ /\ Readable(fs, buf[t])
                /\ remote' = [u \in DOMAIN remote \cup {call[t].uri} |->
                                IF u = call[t].uri THEN ReadFile(fs, buf[t]) ELSE remote[u]]
                /\ pc' = Set(pc, t, "cleanup")
                /\ UNCHANGED exc
             \/ /\ \E d \in Diags : exc' = Set(exc, t, Err("sdk", <<>>, d))
                /\ pc' = Set(pc, t, OnRaise)
                /\ UNCHANGED remote
    /\ UNCHANGED <<fs, prog, call, tmp, buf, keep, workers, hnd, result, cbuf, cmds,
                   orig, prev, host>>

\* lines 174-177: shutil.move(buffer_file_name, gs_uri)
WriteMove(t) ==
    /\ pc[t] = "transfer" /\ ~IsRemote(call[t].uri)
    /\ \/ /\ Exists(fs, buf[t])
          /\ fs' = Put(Del(fs, {buf[t]}), Abspath(call[t].uri), fs[buf[t]])
          /\ pc' = Set(pc, t, "cleanup")
          /\ UNCHANGED exc
       \/ /\ exc' = Set(exc, t, Err("move", call[t].uri, ""))
          /\ pc' = Set(pc, t, OnRaise)
          /\ UNCHANGED fs
    /\ log' = Logged(t, "move")
    /\ UNCHANGED <<remote, prog, call, tmp, buf, keep, workers, hnd, result, cbuf,
                   cmds, ups, orig, prev, host>>

\* ------------------------------------------------------- end of a call
\* The exit of `with tempfile.TemporaryDirectory()`, lines 56 and 140: the
\* directory is removed; a removal that fails raises in place of whatever was
\* in flight.
Cleanup(t) ==
    /\ pc[t] = "cleanup"
    /\ \/ /\ fs' = Rmtree(fs, tmp[t])
          /\ result' = Set(result, t, exc[t])
          /\ log' = Logged(t, "rmtree")
       \/ /\ result' = Set(result, t, Err("cleanup", tmp[t], ""))
          /\ log' = Logged(t, "rmtree_failed")
          /\ UNCHANGED fs
    /\ pc' = Set(pc, t, "ended")
    /\ UNCHANGED <<remote, prog, call, tmp, buf, keep, workers, hnd, exc, cbuf, cmds,
                   ups, orig, prev, host>>

\* The call is over: the caller's script goes on, or stops at the error.
Return(t) ==
    /\ pc[t] = "ended"
    /\ prev' = Set(prev, t, [op |-> call[t].op, uri |-> call[t].uri, orig |-> orig[t]])
    /\ prog' = Set(prog, t, IF result[t] # NoErr \/ exc[t] # NoErr THEN <<>> ELSE prog[t])
    /\ pc' = Set(pc, t, "idle")
    /\ call' = Set(call, t, NoCall)
    /\ tmp' = Set(tmp, t, NoPath)
    /\ buf' = Set(buf, t, NoPath)
    /\ keep' = Set(keep, t, FALSE)
    /\ workers' = Set(workers, t, None)
    /\ hnd' = Set(hnd, t, NoHandle)
    /\ exc' = Set(exc, t, NoErr)
    /\ result' = Set(result, t, NoErr)
    /\ log' = Set(log, t, <<>>)
    /\ cmds' = Set(cmds, t, <<>>)
    /\ ups' = Set(ups, t, <<>>)
    /\ orig' = Set(orig, t, NoSource)
    /\ host' = Set(host, t, NoHost)
    /\ UNCHANGED <<fs, remote, cbuf>>

\* ------------------------------------------------------- specification
\* What the sources hold: nothing, the payload (gzip-encoded under a name in
\* ".gz"), or the payload as it is under every name (a ".gz" that is no gzip).
SourceStates == {"absent", "ok", "raw"}
Stored(name, payload, st) ==
    IF EndsWith(name, GZ) /\ st = "ok" THEN Gzip(payload) ELSE payload
InitFs(payload, st) ==
    IF st = "absent" THEN <<>>
    ELSE [p \in {AbsF, AbsFgz} |-> File(Stored(p, payload, st))]
InitRemote(payload, st) ==
    IF st = "absent" THEN <<>>
    ELSE [u \in {RemoteF, RemoteFgz} |-> Stored(u, payload, st)]

Billings == {NoneS, SomeS(""), SomeS("p")}
WorkerArgs == {None, Some(0), Some(3)}
ChunkArgs == {None, Some(0)}
Reads == {ReadCall(u, bp) : u \in Locators, bp \in Billings}
Writes == {WriteCall(u, mw, cs, bp, FALSE) :
             u \in Locators, mw \in WorkerArgs, cs \in ChunkArgs, bp \in {NoneS, SomeS("p")}}
\* a script: one read, one write, or a read and a write of the bytes read
Scripts ==
    {<<r>> : r \in Reads} \cup {<<w>> : w \in Writes}
      \cup {<<ReadCall(u, NoneS), WriteCall(v, None, None, NoneS, TRUE)>> :
              u \in Locators, v \in Locators}

InitWith(scripts) ==
    /\ \E s \in scripts, payload \in Contents(MaxLen), st \in SourceStates :
          \* a source that is not there has no content; a script that reads
          \* nothing meets one content
          /\ st = "absent" => payload = <<>>
          /\ (s[1].op = "write" /\ st # "absent") => payload = <<1>>
          /\ fs = InitFs(payload, st)
          /\ remote = InitRemote(payload, st)
          /\ prog = [t \in Threads |-> IF t = 1 THEN s ELSE <<>>]
    /\ call = [t \in Threads |-> NoCall]
    /\ pc = [t \in Threads |-> "idle"]
    /\ tmp = [t \in Threads |-> NoPath]
    /\ buf = [t \in Threads |-> NoPath]
    /\ keep = [t \in Threads |-> FALSE]
    /\ workers = [t \in Threads |-> None]
    /\ hnd = [t \in Threads |-> NoHandle]
    /\ exc = [t \in Threads |-> NoErr]
    /\ result = [t \in Threads |-> NoErr]
    /\ cbuf = [t \in Threads |-> NoneB]
    /\ log = [t \in Threads |-> <<>>]
    /\ cmds = [t \in Threads |-> <<>>]
    /\ ups = [t \in Threads |-> <<>>]
    /\ orig = [t \in Threads |-> NoSource]
    /\ prev = [t \in Threads |-> NoPrev]
    /\ host = [t \in Threads |-> NoHost]

Init == InitWith(Scripts)

Next ==
    \E t \in Threads :
       \/ ReadEnter(t) \/ ReadDownload(t) \/ ReadSymlink(t) \/ ReadDecompress(t)
       \/ ReadPlain(t) \/ ReadOpen(t) \/ CallerRead(t)
       \/ WriteEnter(t) \/ WriteOpen(t) \/ CallerWrite(t)
       \/ BodyExit(t) \/ CloseStream(t)
       \/ WriteCompress(t) \/ WritePlain(t) \/ WriteUpload(t) \/ WriteMove(t)
       \/ Cleanup(t) \/ Return(t)

Spec == Init /\ [][Next]_vars

\* A caller runs on: every call it made returns and its body exits, so a call
\* that can take a step takes one.
LiveScripts ==
    {<<ReadCall(u, NoneS)>> : u \in Locators}
      \cup {<<WriteCall(u, None, None, NoneS, FALSE)>> : u \in Locators}
InitLive == InitWith(LiveScripts)
LiveSpec == InitLive /\ [][Next]_vars /\ WF_vars(Next)

\* Two callers at once, each making one call: a read, or a write of bytes it
\* holds.  The sources hold <<1>>.
ConcPayload == <<1>>
ConcCalls ==
    {ReadCall(RemoteFgz, NoneS), ReadCall(RelF, NoneS), ReadCall(RelFgz, NoneS),
     WriteCall(RemoteF, None, None, NoneS, TRUE), WriteCall(RelFgz, None, None, NoneS, TRUE)}
InitConc ==
    /\ fs = InitFs(ConcPayload, "ok")
    /\ remote = InitRemote(ConcPayload, "ok")
    /\ prog \in [Threads -> {<<c>> : c \in ConcCalls}]
    /\ call = [t \in Threads |-> NoCall]
    /\ pc = [t \in Threads |-> "idle"]
    /\ tmp = [t \in Threads |-> NoPath]
    /\ buf = [t \in Threads |-> NoPath]
    /\ keep = [t \in Threads |-> FALSE]
    /\ workers = [t \in Threads |-> None]
    /\ hnd = [t \in Threads |-> NoHandle]
    /\ exc = [t \in Threads |-> NoErr]
    /\ result = [t \in Threads |-> NoErr]
    /\ cbuf = [t \in Threads |-> IF prog[t][1].op = "write" THEN SomeB(ConcPayload) ELSE NoneB]
    /\ log = [t \in Threads |-> <<>>]
    /\ cmds = [t \in Threads |-> <<>>]
    /\ ups = [t \in Threads |-> <<>>]
    /\ orig = [t \in Threads |-> NoSource]
    /\ prev = [t \in Threads |-> NoPrev]
    /\ host = [t \in Threads |-> NoHost]

SpecConc == InitConc /\ [][Next]_vars

\* ============================================================== claims
\* What the claims speak of, read off the state without the code's own tests.
Events(t) == Range(log[t])
Happened(t, e) == e \in Events(t)
\* every event of S in the log of t comes after an event e
Preceded(t, S, e) ==
    \A i \in 1..Len(log[t]) : log[t][i] \in S => \E j \in 1..(i - 1) : log[t][j] = e
LastEvent(t) == IF log[t] = <<>> THEN "" ELSE log[t][Len(log[t])]
NameInGz(uri) == EndsWith(uri, GZ)
GsUri(uri) == StartsWith(uri, GS)
\* the uncompressed content of bytes stored under a name
Plain(name, bytes) == IF NameInGz(name) THEN Gunzip(bytes) ELSE bytes
RemoteEvents == {"gcloud_rc0", "gcloud_rc1", "client", "from_string", "bucket", "upload"}
TransferEvents == {"client", "from_string", "bucket", "upload", "move"}
\* the scratch directory of t, or anything in it, is on the file system
ScratchThere(t) == \E q \in DOMAIN fs : q = tmp[t] \/ Under(q, tmp[t])

\* C1: when a read or write call has ended, on whatever path (normal
\* completion, a failed copy-in, a failed tool, a failed upload or move, an
\* error of the caller), the removal of its scratch directory was the last
\* thing it did, and unless that removal itself failed neither the directory
\* nor anything in it exists any more.
C1_ScratchRemoved ==
    \A t \in Threads :
       pc[t] = "ended" =>
          /\ tmp[t] # NoPath
          /\ LastEvent(t) \in {"rmtree", "rmtree_failed"}
          /\ LastEvent(t) = "rmtree" => ~ScratchThere(t)
\* a call that ended on an error raised after its stream was handed out, with
\* its scratch directory gone
C1_Witness ==
    \E t \in Threads :
       /\ pc[t] = "ended" /\ exc[t] # NoErr /\ Happened(t, "yield")
       /\ LastEvent(t) = "rmtree" /\ ~ScratchThere(t)

\* C2: in a write call nothing of the transfer (the storage client, the
\* upload, the local move) happens before the stream was closed; for a
\* destination name in ".gz" nothing of it happens before the compression
\* tool returned 0; and the compression tool runs only after the close.
C2_WriteOrder ==
    \A t \in Threads :
       call[t].op = "write" =>
          /\ Preceded(t, TransferEvents, "close")
          /\ NameInGz(call[t].uri) => Preceded(t, TransferEvents, "compress_rc0")
          /\ Preceded(t, {"compress_rc0", "compress_rc1"}, "close")
          /\ \A e \in TransferEvents \cup {"compress_rc0", "compress_rc1"} :
                Happened(t, e) => hnd[t].state = "closed"
\* an upload to a destination name in ".gz" has been called
C2_Witness ==
    \E t \in Threads :
       /\ call[t].op = "write" /\ NameInGz(call[t].uri)
       /\ Happened(t, "upload") /\ Happened(t, "compress_rc0")

\* C3: in a read call the stream is handed out only after copy-in (remote
\* source) and decompression (name in ".gz") returned 0; once either returned
\* non-zero no stream is ever handed out, the error raised names the source
\* locator and carries the process's standard error, and it is the error the
\* call ends with whenever the scratch directory could be removed.
C3_FailedProcess(t) == \E i \in 1..Len(cmds[t]) : cmds[t][i].rc # 0
C3_ReadFailsClosed ==
    \A t \in Threads :
       call[t].op = "read" =>
          /\ GsUri(call[t].uri) => Preceded(t, {"yield"}, "gcloud_rc0")
          /\ NameInGz(call[t].uri) => Preceded(t, {"yield"}, "decompress_rc0")
          /\ C3_FailedProcess(t) =>
                LET r == cmds[t][Len(cmds[t])]
                IN  /\ ~Happened(t, "yield") /\ hnd[t] = NoHandle
                    /\ r.rc # 0
                    /\ exc[t].kind \in {"download", "extract"}
                    /\ exc[t].loc = call[t].uri
                    /\ exc[t].diag = r.stderr /\ r.stderr \in Diags
                    /\ pc[t] \in {"cleanup", "ended"}
                    /\ LastEvent(t) = "rmtree" => result[t] = exc[t]
\* a read whose decompression tool failed after a successful copy-in has ended
C3_Witness ==
    \E t \in Threads :
       /\ call[t].op = "read" /\ pc[t] = "ended"
       /\ Happened(t, "gcloud_rc0") /\ Happened(t, "decompress_rc1")
       /\ result[t].kind = "extract"

\* C4: the stream read hands out holds the source's bytes when the name does
\* not end in ".gz" and the gunzipped bytes of the source when it does, for
\* remote sources and for local ones, absolute or relative; so do the bytes the
\* caller reads from it.
C4_Expected(t) == Plain(call[t].uri, orig[t].data)
C4_ReadContent ==
    \A t \in Threads :
       (call[t].op = "read" /\ Happened(t, "yield")) =>
          /\ orig[t].there
          /\ NameInGz(call[t].uri) => GzValid(orig[t].data)
          /\ hnd[t].mode = "rb" /\ hnd[t].data = C4_Expected(t)
          /\ cbuf[t].some => cbuf[t].val = C4_Expected(t)
\* a relative local name in ".gz" whose content <<1, 1>> the caller has read
C4_Witness ==
    \E t \in Threads :
       /\ call[t].op = "read" /\ call[t].uri = RelFgz
       /\ cbuf[t] = SomeB(<<1, 1>>) /\ orig[t].data = Gzip(<<1, 1>>)

\* C5: when the caller's body of a write completed normally, the file given to
\* the upload, or moved to the local destination, holds the bytes the caller
\* wrote if the destination name does not end in ".gz" and a gzip file of them
\* if it does; the file name given to the upload ends in ".gz" exactly when
\* the destination name does.
C5_Delivered(t, bytes) ==
    IF NameInGz(call[t].uri)
    THEN GzValid(bytes) /\ Gunzip(bytes) = hnd[t].data
    ELSE bytes = hnd[t].data
C5_WriteContent ==
    \A t \in Threads :
       call[t].op = "write" =>
          /\ \A i \in 1..Len(ups[t]) :
                /\ ups[t][i].data.some /\ C5_Delivered(t, ups[t][i].data.val)
                /\ NameInGz(ups[t][i].file) <=> NameInGz(call[t].uri)
                /\ ups[t][i].blob = call[t].uri
          /\ (Happened(t, "move") /\ exc[t] = NoErr) =>
                /\ Readable(fs, Abspath(call[t].uri))
                /\ C5_Delivered(t, ReadFile(fs, Abspath(call[t].uri)))
\* <<1, 1>> was written to a remote name in ".gz" and the upload was called
C5_Witness ==
    \E t \in Threads :
       /\ call[t].op = "write" /\ call[t].uri = RemoteFgz
       /\ hnd[t].data = <<1, 1>> /\ Len(ups[t]) = 1

\* C6: round trip.  When a write of exactly the bytes a read handed out has
\* delivered its file, the destination holds an object whose uncompressed
\* content is the uncompressed content the source had, whether or not the
\* source name and the destination name end in ".gz".
C6_Copied(t) ==
    /\ call[t].op = "write" /\ call[t].copy
    /\ pc[t] \in {"cleanup", "ended"} /\ exc[t] = NoErr
C6_RoundTrip ==
    \A t \in Threads :
       C6_Copied(t) =>
          LET dst == Source(fs, remote, call[t].uri)
          IN  /\ prev[t].op = "read" /\ prev[t].orig.there
              /\ dst.there
              /\ NameInGz(call[t].uri) => GzValid(dst.data)
              /\ Plain(call[t].uri, dst.data) = Plain(prev[t].uri, prev[t].orig.data)
\* <<1, 1>> read from a remote name in ".gz" was written to a local name in
\* ".gz" and the call has ended
C6_Witness ==
    \E t \in Threads :
       /\ C6_Copied(t) /\ pc[t] = "ended"
       /\ prev[t].uri = RemoteFgz /\ call[t].uri = RelFgz
       /\ cbuf[t].val = <<1, 1>>

\* C7: a call on a locator that does not start with "gs://" never runs the
\* copy-in command, never constructs a storage client and never calls the
\* upload, on any path.
C7_NoRemoteForLocal ==
    \A t \in Threads :
       (call[t].op # "none" /\ ~GsUri(call[t].uri)) =>
          /\ Events(t) \cap RemoteEvents = {}
          /\ ups[t] = <<>>
          /\ \A i \in 1..Len(cmds[t]) : cmds[t][i].cmd[1] # Word("gcloud")
\* a write to a local name has moved its file and ended
C7_Witness ==
    \E t \in Threads :
       /\ call[t].op = "write" /\ ~GsUri(call[t].uri)
       /\ pc[t] = "ended" /\ Happened(t, "move") /\ result[t] = NoErr

\* C8: the upload is given max_workers as the caller passed it (0 included),
\* or, when the caller passed none, the size of the scheduling affinity set
\* where the platform has one and the CPU count where it has not; chunk_size is
\* given exactly when the caller passed one, with the caller's value.
C8_ExpectedWorkers(t) ==
    IF call[t].max_workers.some THEN call[t].max_workers
    ELSE IF host[t].affinity.some THEN host[t].affinity ELSE host[t].cpus
C8_UploadArgs ==
    \A t \in Threads : \A i \in 1..Len(ups[t]) :
       LET kw == ups[t][i].kwargs
       IN  /\ "max_workers" \in DOMAIN kw
           /\ kw["max_workers"] = C8_ExpectedWorkers(t)
           /\ "chunk_size" \in DOMAIN kw <=> call[t].chunk_size.some
           /\ call[t].chunk_size.some => kw["chunk_size"] = call[t].chunk_size
           /\ DOMAIN kw \subseteq {"max_workers", "chunk_size"}
\* the upload was called for a caller who passed max_workers = 0
C8_Witness ==
    \E t \in Threads :
       /\ Len(ups[t]) = 1 /\ call[t].max_workers = Some(0)
       /\ ups[t][1].kwargs["max_workers"] = Some(0)

\* C9: throughout and after a read of a local name in ".gz", on every path,
\* the caller's compressed file is where it was with the content it had.
C9_LocalGzRead(t) ==
    /\ call[t].op = "read" /\ ~GsUri(call[t].uri) /\ NameInGz(call[t].uri)
    /\ orig[t].there
C9_OriginalKept ==
    \A t \in Threads :
       C9_LocalGzRead(t) =>
          /\ Exists(fs, Abspath(call[t].uri))
          /\ fs[Abspath(call[t].uri)] = File(orig[t].data)
\* such a read was decompressed and handed out, and has ended with its scratch
\* directory removed
C9_Witness ==
    \E t \in Threads :
       /\ C9_LocalGzRead(t) /\ pc[t] = "ended"
       /\ Happened(t, "decompress_rc0") /\ Happened(t, "yield")
       /\ LastEvent(t) = "rmtree" /\ ~ScratchThere(t)

\* C10: a call on a locator that cannot be parsed (a remote locator that is
\* not gs://<bucket>/<object>) creates no scratch directory and hands out no
\* stream.
C10_FailsBeforeScratch ==
    \A t \in Threads :
       (call[t].op # "none" /\ GsUri(call[t].uri) /\ ~WellFormed(call[t].uri)) =>
          /\ ~Happened(t, "mkdtemp")
          /\ ~Happened(t, "yield")

\* C11: when the upload of a write has failed, the error the call carries is
\* one the module reports as it reports a failed copy-in or a failed tool: it
\* names the destination locator and carries the diagnostic text.
C11_UploadFailureReported ==
    \A t \in Threads :
       (call[t].op = "write" /\ Happened(t, "upload") /\ exc[t] # NoErr) =>
          /\ exc[t].kind # "sdk"
          /\ exc[t].loc = call[t].uri
          /\ exc[t].diag \in Diags

\* C12: every step of a call that runs the copy-in command, constructs the
\* storage client, resolves the bucket and the blob or calls the upload is
\* taken while the call's scratch directory is on the file system, and leaves
\* it there: none before the directory is made, none after it is removed.
C12_RemoteStep(t) ==
    \E i \in (Len(log[t]) + 1)..Len(log'[t]) : log'[t][i] \in RemoteEvents
C12_RemoteInsideScratch ==
    [][\A t \in Threads :
          C12_RemoteStep(t) =>
             /\ tmp[t] # NoPath /\ tmp'[t] = tmp[t]
             /\ Exists(fs, tmp[t]) /\ fs[tmp[t]] = Dir
             /\ Exists(fs', tmp[t]) /\ fs'[tmp[t]] = Dir
             /\ ~Happened(t, "rmtree") /\ ~Happened(t, "rmtree_failed")]_vars
\* a copy-in and an upload have both been made by calls whose scratch
\* directories are gone: the upload's call has ended, the copy-in's before it
C12_Witness ==
    \E t \in Threads :
       /\ pc[t] = "ended" /\ Happened(t, "upload") /\ LastEvent(t) = "rmtree"
       /\ prev[t].op = "read" /\ GsUri(prev[t].uri)
       /\ \A d \in TmpDirs : ~Exists(fs, d)

\* The copy-in commands a read of a remote source has run, against the command
\* line the claim describes; `flagged` says whether the flag is expected.
C13_Staged(t) == Join(tmp[t], IF NameInGz(call[t].uri) THEN DOWNLOAD \o GZ ELSE DOWNLOAD)
C13_Line(t, flagged) ==
    IF flagged
    THEN <<Word("gcloud"), Word("storage"), Word("cp"),
           Word("--billing-project"), Word(call[t].billing_project.val),
           Str(call[t].uri), Str(C13_Staged(t))>>
    ELSE <<Word("gcloud"), Word("storage"), Word("cp"),
           Str(call[t].uri), Str(C13_Staged(t))>>
C13_CopyIns(t) == {i \in 1..Len(cmds[t]) : cmds[t][i].cmd[1] = Word("gcloud")}
C13_HasRun(t) == call[t].op = "read" /\ GsUri(call[t].uri) /\ pc[t] # "stage"

\* C13 as stated: the flag and its value are in the command exactly when the
\* caller passed a billing project.
C13_FlagWhenSupplied ==
    \A t \in Threads :
       C13_HasRun(t) =>
          \A i \in C13_CopyIns(t) :
             cmds[t][i].cmd = C13_Line(t, call[t].billing_project.some)
\* C13: a read of a remote source runs one copy-in command: gcloud storage cp,
\* then --billing-project and its value exactly when the caller passed a
\* billing project that is not the empty string, then the source locator, then
\* the path of the staged file in the scratch directory.
C13_CopyInCommand ==
    \A t \in Threads :
       C13_HasRun(t) =>
          /\ C13_CopyIns(t) = {1}
          /\ cmds[t][1].cmd =
                C13_Line(t, call[t].billing_project.some /\ call[t].billing_project.val # "")
\* a read with billing project "p" has run its copy-in with the flag
C13_Witness ==
    \E t \in Threads :
       /\ C13_HasRun(t) /\ call[t].billing_project = SomeS("p")
       /\ Len(cmds[t]) >= 1 /\ Len(cmds[t][1].cmd) = 7
       /\ cmds[t][1].cmd[4] = Word("--billing-project")

\* The staged file of a call in progress: the file its tracked name names.
C14_Staged(t) == call[t].op # "none" /\ buf[t] # NoPath /\ Readable(fs, buf[t])
\* the staged file has not been given away or removed
C14_Kept(t) == ~Happened(t, "rmtree") /\ ~(Happened(t, "move") /\ exc[t] = NoErr)

\* C14 as stated: wherever there is a staged file, its tracked name ends in
\* ".gz" exactly when the file on disk is gzip data.
C14_NameTellsGzip ==
    \A t \in Threads :
       C14_Staged(t) => (NameInGz(buf[t]) <=> GzValid(ReadFile(fs, buf[t])))
\* C14: wherever there is a staged file, a failed copy-in apart, the tracked
\* name ends in ".gz" exactly when the file holds the compressed form of the
\* data: in a read the source's bytes stored under a name in ".gz" (gzip data
\* exactly when the source's bytes are), in a write the output of the
\* compression tool (gzip data of the caller's bytes).  Under a name without
\* ".gz" it holds the uncompressed form.  Once a tool has returned 0 the
\* tracked name is the name the tool gave the file, and after a failed tool the
\* tracked name still names the tool's input.
C14_NameTellsForm ==
    \A t \in Threads :
       call[t].op # "none" /\ buf[t] # NoPath =>
          /\ (Happened(t, "decompress_rc0") /\ C14_Kept(t)) =>
                ~NameInGz(buf[t]) /\ Readable(fs, buf[t])
          /\ (Happened(t, "compress_rc0") /\ C14_Kept(t)) =>
                NameInGz(buf[t]) /\ Readable(fs, buf[t])
          /\ (call[t].op = "read" /\ ~Happened(t, "decompress_rc0")) =>
                (NameInGz(buf[t]) <=> NameInGz(call[t].uri))
          /\ (call[t].op = "write" /\ ~Happened(t, "compress_rc0")) => ~NameInGz(buf[t])
          /\ (C14_Staged(t) /\ call[t].op = "read" /\ exc[t].kind # "download") =>
                LET staged == ReadFile(fs, buf[t])
                IN  IF NameInGz(buf[t])
                    THEN /\ staged = orig[t].data
                         /\ GzValid(staged) <=> GzValid(orig[t].data)
                    ELSE staged = Plain(call[t].uri, orig[t].data)
          /\ (C14_Staged(t) /\ call[t].op = "write" /\ Happened(t, "close")) =>
                LET staged == ReadFile(fs, buf[t])
                IN  IF NameInGz(buf[t])
                    THEN GzValid(staged) /\ Gunzip(staged) = hnd[t].data
                    ELSE staged = hnd[t].data
\* the compression tool has just renamed the staged file of a write of <<1, 0>>
C14_Witness ==
    \E t \in Threads :
       /\ call[t].op = "write" /\ pc[t] = "transfer" /\ LastEvent(t) = "compress_rc0"
       /\ C14_Staged(t) /\ NameInGz(buf[t])
       /\ ReadFile(fs, buf[t]) = Gzip(<<1, 0>>)

\* C15: a call that ends with a failure in flight (copy-in, tool, upload, move,
\* caller) hands that failure to its caller even when the removal of the
\* scratch directory failed too; when the removal is the only thing that
\* failed, its failure is what the caller receives.
C15_PrimaryNotMasked ==
    \A t \in Threads :
       pc[t] = "ended" =>
          /\ exc[t] # NoErr => result[t] = exc[t]
          /\ (exc[t] = NoErr /\ LastEvent(t) = "rmtree_failed") =>
                result[t].kind = "cleanup"

\* how many events of S the call of t has logged
C16_Count(t, S) == Cardinality({i \in 1..Len(log[t]) : log[t][i] \in S})
C16_StepFailed == {"gcloud_rc1", "decompress_rc1", "compress_rc1", "open_failed"}
C16_Unwinding == {"close", "rmtree", "rmtree_failed"}
\* every event after one of S is one of T
C16_Then(t, S, T) ==
    \A i \in 1..Len(log[t]) : \A j \in (i + 1)..Len(log[t]) :
       log[t][i] \in S => log[t][j] \in T
\* a write to a remote destination is past its transfer step, which its body
\* and its compression let it reach
C16_Transferred(t) ==
    /\ call[t].op = "write" /\ GsUri(call[t].uri)
    /\ pc[t] \in {"cleanup", "ended"}
    /\ exc[t].kind \notin {"caller", "compress"}

\* C16: within one call the copy-in command, the decompression or compression
\* tool, the upload and the move are each invoked at most once, and every
\* process run and every upload call is one of these; a write to a remote
\* destination whose body and compression succeeded has entered the upload
\* step exactly once, and has called the upload exactly once when the client
\* and the blob could be constructed; after a step has failed, or the caller's
\* body has raised, nothing follows but the close of the stream and the
\* removal of the scratch directory.
C16_NoRetry ==
    \A t \in Threads :
       call[t].op # "none" =>
          /\ \A e \in {"mkdtemp", "symlink", "yield", "client", "upload", "move"} :
                C16_Count(t, {e}) <= 1
          /\ C16_Count(t, {"gcloud_rc0", "gcloud_rc1"}) <= 1
          /\ C16_Count(t, {"decompress_rc0", "decompress_rc1",
                           "compress_rc0", "compress_rc1"}) <= 1
          /\ Len(cmds[t]) = C16_Count(t, {"gcloud_rc0", "gcloud_rc1", "decompress_rc0",
                                          "decompress_rc1", "compress_rc0", "compress_rc1"})
          /\ Len(ups[t]) = C16_Count(t, {"upload"})
          /\ C16_Transferred(t) =>
                /\ C16_Count(t, {"client"}) = 1
                /\ (WellFormed(call[t].uri) /\ Happened(t, "from_string")) => Len(ups[t]) = 1
          /\ C16_Then(t, C16_StepFailed, {"rmtree", "rmtree_failed"})
          /\ exc[t].kind = "caller" => C16_Then(t, {"body_exit"}, C16_Unwinding)
          /\ exc[t].kind \in {"sdk", "uri", "move"} =>
                C16_Then(t, TransferEvents, TransferEvents \cup {"rmtree", "rmtree_failed"})
          /\ exc[t] # NoErr => pc[t] \in {"exit", "cleanup", "ended"}
\* a write to a remote name in ".gz" has ended without error after one run of
\* the compression tool and one call of the upload
C16_Witness ==
    \E t \in Threads :
       /\ C16_Transferred(t) /\ pc[t] = "ended" /\ result[t] = NoErr
       /\ NameInGz(call[t].uri) /\ Len(cmds[t]) = 1 /\ Len(ups[t]) = 1

\* The scratch directory t owns: from its creation until its removal.
C17_Owns(t) == tmp[t] # NoPath /\ ~Happened(t, "rmtree")
C17_Inside(q, t) == q = tmp[t] \/ Under(q, tmp[t])
\* the step taken is not a step of t
C17_Idle(t) ==
    /\ pc'[t] = pc[t] /\ log'[t] = log[t] /\ hnd'[t] = hnd[t]
    /\ cbuf'[t] = cbuf[t] /\ call'[t] = call[t]
\* the paths the call of t names: its staged file and, for a local locator,
\* the caller's file
C17_Paths(t) ==
    (IF buf[t] = NoPath THEN {} ELSE {buf[t], StripGz(buf[t]), buf[t] \o GZ})
      \cup (IF call[t].op # "none" /\ ~GsUri(call[t].uri) THEN {Abspath(call[t].uri)} ELSE {})
C17_OwnScratch ==
    \A t \in Threads :
       /\ tmp[t] # NoPath <=> Happened(t, "mkdtemp")
       /\ C16_Count(t, {"mkdtemp"}) <= 1
       /\ C17_Owns(t) => Exists(fs, tmp[t]) /\ fs[tmp[t]] = Dir
       /\ buf[t] # NoPath => (tmp[t] # NoPath /\ Under(buf[t], tmp[t]))
       /\ \A u \in Threads \ {t} :
             C17_Owns(t) /\ C17_Owns(u) =>
                /\ tmp[t] # tmp[u]
                /\ \A q \in C17_Paths(t) : ~C17_Inside(q, u)
\* no step of another call creates, changes or removes anything in the scratch
\* directory t owns
C17_Untouched ==
    \A t \in Threads :
       (C17_Owns(t) /\ C17_Idle(t)) =>
          \A q \in DOMAIN fs \cup DOMAIN fs' :
             C17_Inside(q, t) => (q \in DOMAIN fs /\ q \in DOMAIN fs' /\ fs'[q] = fs[q])

\* C17: with calls running at the same time in any interleaving, each call has
\* one scratch directory, no two calls in progress have the same one, the
\* paths a call works on are outside every other call's scratch directory, and
\* no step of a call (its cleanup included) creates, changes or removes
\* anything in the scratch directory of another.
C17_Isolation == []C17_OwnScratch /\ [][C17_Untouched]_vars
\* one call has removed its scratch directory while the other, between its
\* compression and its transfer, still has its staged file
C17_Witness ==
    \E t \in Threads : \E u \in Threads \ {t} :
       /\ pc[t] = "ended" /\ LastEvent(t) = "rmtree" /\ ~ScratchThere(t)
       /\ pc[u] = "transfer" /\ Happened(u, "compress_rc0")
       /\ C17_Owns(u) /\ Readable(fs, buf[u])

\* The runs of a compression or decompression tool among the processes of t.
C18_Tools == {Word("unpigz"), Word("gunzip"), Word("pigz"), Word("gzip")}
C18_ToolRuns(t) == {i \in 1..Len(cmds[t]) : cmds[t][i].cmd[1] \in C18_Tools}
\* the command line the claim describes
C18_Line(t) ==
    IF call[t].op = "read"
    THEN LET tool == IF Happened(t, "unpigz_on_path") THEN Word("unpigz") ELSE Word("gunzip")
             name == Str(Join(tmp[t], DOWNLOAD \o GZ))
         IN  IF GsUri(call[t].uri) THEN <<tool, name>>
             ELSE <<tool, Word("--keep"), Word("--force"), name>>
    ELSE LET tool == IF Happened(t, "pigz_on_path") THEN Word("pigz") ELSE Word("gzip")
         IN  <<tool, Str(Join(tmp[t], FILE_TO_UPLOAD))>>
\* the call is past the point where its tool runs
C18_PastTool(t) ==
    IF call[t].op = "read" THEN pc[t] \in {"open", "body", "exit"} \/ Happened(t, "yield")
    ELSE pc[t] = "transfer" \/ Events(t) \cap TransferEvents # {}

\* C18: a read of a name in ".gz" runs one decompression tool, a write to a
\* name in ".gz" one compression tool: the parallel one (unpigz, pigz) exactly
\* when it was found on the search path, the serial one (gunzip, gzip)
\* otherwise; the decompression tool is given --keep --force exactly when the
\* source is a local path; a call on a name without ".gz" looks for no tool
\* and runs none.
C18_ToolChoice ==
    \A t \in Threads :
       call[t].op # "none" =>
          /\ \A i \in C18_ToolRuns(t) : cmds[t][i].cmd = C18_Line(t)
          /\ Cardinality(C18_ToolRuns(t)) <= 1
          /\ ~(Happened(t, "unpigz_on_path") /\ Happened(t, "unpigz_not_on_path"))
          /\ ~(Happened(t, "pigz_on_path") /\ Happened(t, "pigz_not_on_path"))
          /\ (NameInGz(call[t].uri) /\ C18_PastTool(t)) => C18_ToolRuns(t) # {}
          /\ ~NameInGz(call[t].uri) =>
                /\ C18_ToolRuns(t) = {}
                /\ Events(t) \cap {"unpigz_on_path", "unpigz_not_on_path",
                                   "pigz_on_path", "pigz_not_on_path"} = {}
\* a read of a local name in ".gz" found unpigz and ran it with --keep --force
C18_Witness ==
    \E t \in Threads :
       /\ call[t].op = "read" /\ call[t].uri = AbsFgz /\ Happened(t, "unpigz_on_path")
       /\ Len(cmds[t]) = 1
       /\ cmds[t][1].cmd = <<Word("unpigz"), Word("--keep"), Word("--force"),
                             Str(Join(tmp[t], DOWNLOAD \o GZ))>>

\* C19: when the caller's body raised while the write stream was open, no
\* compression tool is looked up or run, nothing of the transfer happens (no
\* storage client, no upload, no move), the destination is as it was when the
\* call began, and the call ends with the caller's error whenever the scratch
\* directory could be removed.
C19_BodyRaised(t) == call[t].op = "write" /\ exc[t].kind = "caller"
C19_NothingDelivered ==
    \A t \in Threads :
       C19_BodyRaised(t) =>
          /\ cmds[t] = <<>> /\ ups[t] = <<>>
          /\ Events(t) \subseteq {"mkdtemp", "yield", "body_exit", "close",
                                  "rmtree", "rmtree_failed"}
          /\ Source(fs, remote, call[t].uri) = orig[t]
          /\ pc[t] \in {"exit", "cleanup", "ended"}
          /\ pc[t] # "exit" => hnd[t].state = "closed"
          /\ (pc[t] = "ended" /\ LastEvent(t) = "rmtree") => result[t] = exc[t]
\* the caller wrote <<0>> for a local destination holding <<1>> and raised; the
\* call has ended with the caller's error and the destination still holds <<1>>
C19_Witness ==
    \E t \in Threads :
       /\ C19_BodyRaised(t) /\ pc[t] = "ended" /\ result[t].kind = "caller"
       /\ call[t].uri = RelF /\ hnd[t].data = <<0>>
       /\ orig[t] = [there |-> TRUE, data |-> <<1>>]
       /\ fs[AbsF] = File(<<1>>)

\* The steps of a call, in the order of the source: staging (the scratch
\* directory, the copy-in or the link; in a write the stream and the caller's
\* body), the tool, in a read the stream and the caller's body, in a write the
\* transfer, and the removal of the scratch directory.
C20_Rank(op, e) ==
    IF e \in {"rmtree", "rmtree_failed"} THEN 5
    ELSE IF e \in TransferEvents THEN 4
    ELSE IF e \in {"unpigz_on_path", "unpigz_not_on_path", "decompress_rc0", "decompress_rc1",
                   "pigz_on_path", "pigz_not_on_path", "compress_rc0", "compress_rc1"} THEN 2
    ELSE IF e \in {"mkdtemp", "gcloud_rc0", "gcloud_rc1", "symlink"} THEN 1
    ELSE IF op = "read" THEN 3 ELSE 1
C20_InOrder(t) ==
    /\ \A i \in 1..Len(log[t]) : \A j \in (i + 1)..Len(log[t]) :
          /\ C20_Rank(call[t].op, log[t][i]) <= C20_Rank(call[t].op, log[t][j])
          /\ C20_Rank(call[t].op, log[t][i]) # 5
    /\ log[t] # <<>> => log[t][1] = "mkdtemp"
    /\ hnd[t].state = "open" => LastEvent(t) \in {"yield", "body_exit"}
C20_Started(t) == pc[t] \notin {"idle", "ended"}
C20_Terminal(t) ==
    /\ pc[t] = "ended"
    /\ hnd[t].state # "open" /\ (Happened(t, "yield") => hnd[t].state = "closed")
    /\ LastEvent(t) \in {"rmtree", "rmtree_failed"}
    /\ LastEvent(t) = "rmtree" => ~ScratchThere(t)

\* C20: every call that has started comes to its end, completed or failed,
\* with its stream closed if one was handed out and its scratch directory
\* removed (unless the removal itself failed); and the steps of a call follow
\* each other as staging, tool, transfer, removal, one after the other, the
\* removal last and once.
C20_Terminates ==
    /\ \A t \in Threads : C20_Started(t) ~> C20_Terminal(t)
    /\ [](\A t \in Threads : call[t].op # "none" => C20_InOrder(t))
\* a write that went through staging, compression and upload has ended
C20_Witness ==
    \E t \in Threads :
       /\ C20_Terminal(t) /\ call[t].op = "write" /\ result[t] = NoErr
       /\ Happened(t, "compress_rc0") /\ Happened(t, "upload")
       /\ hnd[t].state = "closed" /\ ~ScratchThere(t)

====
